---------------------------- MODULE Spec2Model ----------------------------
(***************************************************************************)
(* git-branch-stash: the transactional snapshot restore (Snapshot::apply,  *)
(* Snapshot::from_repo over GitRepo) and the branch graph builder          *)
(* (graph::Node).                                                          *)
(*                                                                         *)
(* Four specifications share the module:                                   *)
(*   Spec       the restore protocol, one action per step of               *)
(*              Snapshot::apply, followed by a capture (from_repo);        *)
(*   GraphSpec  the graph builder, one action per Node::insert of          *)
(*              Node::from_branches;                                       *)
(*   CmdSpec    the apply and pop commands of main.rs around               *)
(*              Snapshot::apply;                                           *)
(*   ConfigSpec RepoConfig::from_all, one action per source it merges.     *)
(***************************************************************************)
EXTENDS Integers, Sequences, FiniteSets, TLC

VARIABLES
    \* ---- the repository (git2::Repository behind GitRepo) ----
    refs,            \* local branch name -> commit id, Zero when the branch is absent
    head,            \* HEAD: [attached, name, id]
    worktree,        \* the commit whose tree is checked out in the working tree
    \* ---- Snapshot::apply ----
    snapshot,        \* self.branches: sequence of [name, id]
    head_branch_name,\* snapshot.rs:51
    planned_changes, \* snapshot.rs:53, sequence of [old, new, name]
    idx,             \* position of the for loop of snapshot.rs:77
    pc,              \* the statement apply is at
    transaction,     \* the git2_ext ReferenceTransaction: none, prepared, committed, aborted
    result,          \* what apply returned: none, ok, err
    captured,        \* the branch list of Snapshot::from_repo run after apply
    \* ---- history of the run, read only by the properties ----
    ops,             \* the GitRepo calls made, in order
    refs0, head0, worktree0,
    \* ---- the graph builder (graph/node.rs) ----
    parents,         \* the commit graph: commit id -> set of parent ids
    input,           \* the Branch Index handed to from_branches
    oids,            \* branches.oids(): the tips in the order the map iterates them
    branches,        \* possible_branches: what is left of the index
    branch_ids,      \* the tips still to insert (node.rs:43)
    root,            \* the tree built so far
    queried,         \* whether the repository was asked anything (find_commit, merge_base, ...)
    gpc,             \* start, insert, done, error, panic
    inserted,        \* the last call of Node::insert: the tree, the tip and the index it got
    \* ---- the apply and pop commands (main.rs) ----
    cpc,             \* the statement the command is at
    pop_flag,        \* apply(args, pop): TRUE for the pop command
    snapshot_file,   \* the newest snapshot file of the stack (stack.peek()): none, present, corrupt
    tracked_dirty,   \* the working tree or index holds changes stash save takes
    other_dirty,     \* is_dirty sees something stash save does not take
    stash_id,        \* main.rs:211: unset, or what stash_push returned: none, some
    stashed,         \* refs/stash holds the entry the command saved
    popped,          \* what stash_pop did: none (not called), no_stash, ok, err
    exit_code,       \* none, success, usage, failure
    \* ---- RepoConfig::from_all (config.rs) ----
    cfg_pc,          \* the source from_all merges next
    sources,         \* what each configuration source holds
    config           \* the RepoConfig built so far

repoVars  == <<refs, head, worktree>>
applyVars == <<snapshot, head_branch_name, planned_changes, idx, pc, transaction,
               result, captured, ops, refs0, head0, worktree0>>
graphVars == <<parents, input, oids, branches, branch_ids, root, queried, gpc, inserted>>
commandVars == <<cpc, pop_flag, snapshot_file, tracked_dirty, other_dirty, stash_id,
                 stashed, popped, exit_code>>
configVars  == <<cfg_pc, sources, config>>
vars      == <<repoVars, applyVars, graphVars, commandVars, configVars>>

-----------------------------------------------------------------------------
(* Bounds of the restore model *)

\* Commit ids 1..MaxOid are objects of the repository.
MaxOid == 2
\* A snapshot holds at most MaxRecords branch records.
MaxRecords == 2

\* git2::Oid::zero(): the id planned for a branch that does not exist.
Zero == 0
Objects == 1..MaxOid
\* An id a snapshot file may record although the object store does not hold it.
MissingOid == MaxOid + 1
\* Local branch names.  "HEAD" is the name Reference::shorthand gives a
\* detached HEAD; a snapshot file may record a branch of that name.
BranchNames == {"a", "b"}
Names == BranchNames \cup {"HEAD"}
\* A local branch whose name is not UTF-8: Branch::name() gives no text for it.
NonUtf8 == "non-utf8"
\* The names refs/heads may hold.
RefNames == Names \cup {NonUtf8}

\* The order of String on the names used ('H' sorts before the lower case letters).
NameRank(n) == CASE n = "HEAD" -> 1 [] n = "a" -> 2 [] n = "b" -> 3 [] OTHER -> 4

SeqsUpTo(S, n) == UNION {[1..k -> S] : k \in 0..n}

-----------------------------------------------------------------------------
(* GitRepo *)

Attached(n) == [attached |-> TRUE, name |-> n, id |-> Zero]
Detached(c) == [attached |-> FALSE, name |-> "HEAD", id |-> c]

\* repo.head().resolve().target(): the commit HEAD resolves to.
HeadId(h, rs) == IF h.attached THEN rs[h.name] ELSE h.id

\* GitRepo::head_branch: the shorthand of the resolved HEAD reference.  It is
\* the branch name when HEAD is attached and "HEAD" when it is detached.
HeadBranch(h) == IF h.attached THEN h.name ELSE "HEAD"

\* GitRepo::find_local_branch(name).map(|b| b.id); Zero stands for None.
FindLocalBranch(rs, name) == rs[name]

\* GitRepo::branch: find_commit(id)? then repo.branch(name, commit, force).
\* libgit2 refuses to force-update the branch HEAD is attached to.
BranchCanSucceed(h, name, id) ==
    /\ id \in Objects
    /\ ~(h.attached /\ h.name = name)

\* A branch call that only creates: an existing branch keeps its tip.
BranchRefsCreateOnly(rs, name, id) ==
    IF rs[name] = Zero THEN [rs EXCEPT ![name] = id] ELSE rs

\* A branch call that moves along every branch that stood where name stood.
BranchRefsMovesAlong(rs, name, id) ==
    [n \in DOMAIN rs |-> IF n = name \/ (rs[n] # Zero /\ rs[n] = rs[name]) THEN id ELSE rs[n]]

BranchRefs(rs, name, id) == [rs EXCEPT ![name] = id]

\* A detach that leaves HEAD as it is.
DetachHeadKeeps(h, rs) == h

\* GitRepo::detach: set_head_detached(head_id).
DetachHead(h, rs) == Detached(HeadId(h, rs))

\* A branch listing that leaves out the branch HEAD is attached to.
LocalBranchesButHead(rs) ==
    {[name |-> n, id |-> rs[n]] :
        n \in {m \in RefNames \ {NonUtf8} :
                  rs[m] # Zero /\ ~(head.attached /\ head.name = m)}}

\* A branch listing that takes the bytes of a name that is no text as they are.
LocalBranchesLossy(rs) ==
    {[name |-> n, id |-> rs[n]] : n \in {m \in RefNames : rs[m] # Zero}}

\* GitRepo::local_branches: every local branch with its tip; a branch whose
\* name is not UTF-8 is left out (git.rs:154-161).
LocalBranches(rs) ==
    {[name |-> n, id |-> rs[n]] : n \in {m \in RefNames \ {NonUtf8} : rs[m] # Zero}}

-----------------------------------------------------------------------------
(* Snapshot *)

\* Ord for Branch: (name, id).
BranchLess(x, y) ==
    \/ NameRank(x.name) < NameRank(y.name)
    \/ (x.name = y.name /\ x.id < y.id)

RECURSIVE SortBranches(_)
SortBranches(S) ==
    IF S = {} THEN <<>>
    ELSE LET m == CHOOSE x \in S : \A y \in S \ {x} : BranchLess(x, y)
         IN <<m>> \o SortBranches(S \ {m})

\* Snapshot::from_repo: one record per local branch, sorted.
FromRepo(rs) == SortBranches(LocalBranches(rs))

\* The loop of snapshot.rs:54-63 over the first k records.
RECURSIVE PlanUpTo(_, _, _)
PlanUpTo(snap, rs, k) ==
    IF k = 0 THEN <<>>
    ELSE LET branch   == snap[k]
             existing == FindLocalBranch(rs, branch.name)
             before   == PlanUpTo(snap, rs, k - 1)
         IN IF existing = branch.id
            THEN before
            ELSE Append(before, [old |-> existing, new |-> branch.id,
                                 name |-> branch.name])

\* A plan that keeps every record, changed or not.
PlannedChangesAll(snap, rs) ==
    [i \in DOMAIN snap |->
        [old |-> FindLocalBranch(rs, snap[i].name), new |-> snap[i].id,
         name |-> snap[i].name]]

\* A plan that takes every planned branch for a missing one.
PlannedChangesZeroOld(snap, rs) ==
    LET plan == PlanUpTo(snap, rs, Len(snap))
    IN [i \in DOMAIN plan |-> [plan[i] EXCEPT !.old = Zero]]

PlannedChanges(snap, rs) == PlanUpTo(snap, rs, Len(snap))

Pairs(seq) == {[name |-> seq[i].name, id |-> seq[i].id] : i \in DOMAIN seq}

DistinctNames(seq) ==
    \A i, j \in DOMAIN seq : seq[i].name = seq[j].name => i = j


-----------------------------------------------------------------------------
(* Snapshot::apply, statement by statement *)

Outcomes == {"ok", "fail"}

LogOp(op, name, ok) ==
    Append(ops, [op |-> op, name |-> name, ok |-> ok,
                 attached |-> (head.attached /\ head.name = name)])

\* `?` on an Err after the transaction was opened: apply returns the error and
\* the ReferenceTransaction is dropped without committed().
Abort ==
    /\ result' = "err"
    /\ transaction' = "aborted"
    /\ pc' = "done"

\* The statement after a finished iteration of the loop of snapshot.rs:77.
NextChange(i) == IF i < Len(planned_changes) THEN "loop" ELSE "commit"

\* snapshot.rs:50-63
Plan ==
    /\ pc = "plan"
    /\ head_branch_name' = HeadBranch(head)
    /\ planned_changes' = PlannedChanges(snapshot, refs)
    /\ pc' = "open"
    /\ UNCHANGED <<repoVars, snapshot, idx, transaction, result, captured, ops,
                   refs0, head0, worktree0, graphVars, commandVars, configVars>>

\* An apply that detaches HEAD before it opens the transaction.
OpenTransactionDetached ==
    /\ pc = "open"
    /\ head' = DetachHead(head, refs)
    /\ \E outcome \in Outcomes :
         IF outcome = "ok"
         THEN /\ transaction' = "prepared"
              /\ idx' = 1
              /\ pc' = NextChange(0)
              /\ UNCHANGED result
         ELSE /\ result' = "err"
              /\ pc' = "done"
              /\ UNCHANGED <<transaction, idx>>
    /\ UNCHANGED <<refs, worktree, snapshot, head_branch_name, planned_changes,
                   captured, ops, refs0, head0, worktree0, graphVars, commandVars,
                   configVars>>

\* snapshot.rs:65-75: reopen the repository, load the hooks, run the
\* reference-transaction hook; each may fail, and the hook may reject.
OpenTransaction ==
    /\ pc = "open"
    /\ \E outcome \in Outcomes :
         IF outcome = "ok"
         THEN /\ transaction' = "prepared"
              /\ idx' = 1
              /\ pc' = NextChange(0)
              /\ UNCHANGED result
         ELSE /\ result' = "err"
              /\ pc' = "done"
              /\ UNCHANGED <<transaction, idx>>
    /\ UNCHANGED <<repoVars, snapshot, head_branch_name, planned_changes, captured,
                   ops, refs0, head0, worktree0, graphVars, commandVars, configVars>>

\* snapshot.rs:80 and GitRepo::detach
Detach ==
    /\ pc = "loop"
    /\ LET name == planned_changes[idx].name
       IN /\ head_branch_name = name
          /\ \E outcome \in Outcomes :
               /\ ops' = LogOp("detach", name, outcome = "ok")
               /\ IF outcome = "ok"
                  THEN /\ head' = DetachHead(head, refs)
                       /\ pc' = "branch"
                       /\ UNCHANGED <<result, transaction>>
                  ELSE /\ Abort
                       /\ UNCHANGED head
    /\ UNCHANGED <<refs, worktree, snapshot, head_branch_name, planned_changes, idx,
                   captured, refs0, head0, worktree0, graphVars, commandVars, configVars>>

\* repo.branch(name, new_id)?
DoBranch(name, new_id, then) ==
    \E outcome \in Outcomes :
        LET ok == outcome = "ok" /\ BranchCanSucceed(head, name, new_id)
        IN /\ ops' = LogOp("branch", name, ok)
           /\ IF ok
              THEN /\ refs' = BranchRefs(refs, name, new_id)
                   /\ pc' = then
                   /\ UNCHANGED <<result, transaction>>
              ELSE /\ Abort
                   /\ UNCHANGED refs

\* snapshot.rs:81, the HEAD branch after the detach
BranchHead ==
    /\ pc = "branch"
    /\ DoBranch(planned_changes[idx].name, planned_changes[idx].new, "switch")
    /\ UNCHANGED <<head, worktree, snapshot, head_branch_name, planned_changes, idx,
                   captured, refs0, head0, worktree0, graphVars, commandVars, configVars>>

\* snapshot.rs:85, any other branch
BranchOther ==
    /\ pc = "loop"
    /\ head_branch_name # planned_changes[idx].name
    /\ DoBranch(planned_changes[idx].name, planned_changes[idx].new, NextChange(idx))
    /\ idx' = idx + 1
    /\ UNCHANGED <<head, worktree, snapshot, head_branch_name, planned_changes,
                   captured, refs0, head0, worktree0, graphVars, commandVars, configVars>>

\* snapshot.rs:82 and GitRepo::switch: find_branch, set_head, then a forced
\* checkout_head.  A failure of the checkout leaves HEAD already attached.
SwitchOutcomes == {"ok", "fail_set_head", "fail_checkout"}

Switch ==
    /\ pc = "switch"
    /\ LET name == planned_changes[idx].name
       IN \E outcome \in SwitchOutcomes :
            LET found == FindLocalBranch(refs, name) # Zero
                o     == IF found THEN outcome ELSE "fail_set_head"
            IN /\ ops' = LogOp("switch", name, o = "ok")
               /\ head' = IF o = "fail_set_head" THEN head ELSE Attached(name)
               /\ worktree' = IF o = "ok" THEN refs[name] ELSE worktree
               /\ IF o = "ok"
                  THEN /\ pc' = NextChange(idx)
                       /\ idx' = idx + 1
                       /\ UNCHANGED <<result, transaction>>
                  ELSE /\ Abort
                       /\ UNCHANGED idx
    /\ UNCHANGED <<refs, snapshot, head_branch_name, planned_changes, captured,
                   refs0, head0, worktree0, graphVars, commandVars, configVars>>

\* snapshot.rs:89-91
Commit ==
    /\ pc = "commit"
    /\ transaction' = "committed"
    /\ result' = "ok"
    /\ pc' = "done"
    /\ UNCHANGED <<repoVars, snapshot, head_branch_name, planned_changes, idx,
                   captured, ops, refs0, head0, worktree0, graphVars, commandVars, configVars>>

\* The loop of snapshot.rs:77-87 from the i-th planned change on, run as one
\* call on a repository whose operations fail only where its state makes
\* them fail (an object that is missing); head_branch_name is hb throughout.
RECURSIVE ApplyChanges(_, _, _, _, _)
ApplyChanges(changes, i, rs, h, hb) ==
    IF i > Len(changes) THEN [result |-> "ok", refs |-> rs, head |-> h]
    ELSE LET name     == changes[i].name
             detached == IF hb = name THEN DetachHead(h, rs) ELSE h
         IN IF ~BranchCanSucceed(detached, name, changes[i].new)
            THEN [result |-> "err", refs |-> rs, head |-> detached]
            ELSE ApplyChanges(changes, i + 1, BranchRefs(rs, name, changes[i].new),
                              IF hb = name THEN Attached(name) ELSE h, hb)

\* Snapshot::apply as one call: what it returns and the refs and HEAD it leaves.
ApplyOutcome(snap, rs, h) ==
    ApplyChanges(PlannedChanges(snap, rs), 1, rs, h, HeadBranch(h))

\* Snapshot::from_repo called right after apply returned.
Capture ==
    /\ pc = "done"
    /\ captured' = FromRepo(refs)
    /\ pc' = "captured"
    /\ UNCHANGED <<repoVars, snapshot, head_branch_name, planned_changes, idx,
                   transaction, result, ops, refs0, head0, worktree0, graphVars, commandVars, configVars>>

-----------------------------------------------------------------------------
(* The states apply may be called in *)

SnapshotRecords == [name : Names, id : Objects \cup {MissingOid}]

\* HEAD is attached to an existing local branch or detached at a commit.
HeadStates(rs) ==
    {Attached(n) : n \in {m \in BranchNames : rs[m] # Zero}}
        \cup {Detached(c) : c \in Objects}

\* No command runs.
CommandIdle ==
    /\ cpc = "idle"
    /\ pop_flag = FALSE
    /\ snapshot_file = "none"
    /\ tracked_dirty = FALSE
    /\ other_dirty = FALSE
    /\ stash_id = "unset"
    /\ stashed = FALSE
    /\ popped = "none"
    /\ exit_code = "none"

\* No configuration is loaded.
ConfigIdle ==
    /\ cfg_pc = "idle"
    /\ sources = <<>>
    /\ config = <<>>

GraphIdle ==
    /\ parents = <<>>
    /\ input = <<>>
    /\ branches = <<>>
    /\ oids = <<>>
    /\ branch_ids = <<>>
    /\ root = <<>>
    /\ queried = FALSE
    /\ gpc = "idle"
    /\ inserted = <<>>

Init ==
    /\ refs \in {rs \in [RefNames -> Objects \cup {Zero}] :
                    rs["HEAD"] = Zero /\ rs[NonUtf8] \in {Zero, 1}}
    /\ head \in HeadStates(refs)
    /\ worktree = HeadId(head, refs)
    /\ snapshot \in SeqsUpTo(SnapshotRecords, MaxRecords)
    /\ head_branch_name = ""
    /\ planned_changes = <<>>
    /\ idx = 0
    /\ pc = "plan"
    /\ transaction = "none"
    /\ result = "none"
    /\ captured = <<>>
    /\ ops = <<>>
    /\ refs0 = refs
    /\ head0 = head
    /\ worktree0 = worktree
    /\ GraphIdle
    /\ CommandIdle
    /\ ConfigIdle

Next ==
    \/ Plan
    \/ OpenTransaction
    \/ Detach
    \/ BranchHead
    \/ BranchOther
    \/ Switch
    \/ Commit
    \/ Capture

Spec == Init /\ [][Next]_vars

-----------------------------------------------------------------------------
(* The apply and pop commands (main.rs, fn apply) *)

\* is_dirty seeing only what stash save takes.
IsDirtyTracked(tracked, other) == tracked

\* is_dirty: the repository state is not Clean or statuses() is not empty.
IsDirty(tracked, other) == tracked \/ other

\* An exit code that counts a failed stash pop as a failure.
ExitCodeStrict(applied, pop) ==
    IF applied = "ok" /\ pop # "err" THEN "success" ELSE "failure"

\* The exit code of apply once Snapshot::apply returned: with_code(FAILURE)?
\* on its error, Ok(()) otherwise, whatever stash_pop did.
ExitCode(applied, pop) == IF applied = "ok" THEN "success" ELSE "failure"

\* main.rs:206-209 and 228-230: stack.peek() and Snapshot::load.
CmdPeek ==
    /\ cpc = "peek"
    /\ IF snapshot_file = "present"
       THEN /\ cpc' = "stash_push"
            /\ UNCHANGED exit_code
       ELSE /\ cpc' = "exit"
            /\ exit_code' = IF snapshot_file = "none" THEN "success" ELSE "failure"
    /\ UNCHANGED <<pop_flag, snapshot_file, tracked_dirty, other_dirty, stash_id,
                   stashed, popped, repoVars, applyVars, graphVars, configVars>>

\* main.rs:211 and stash_push: Some(id) when the signature is known and
\* stash_save2 saved the changes, None on any failure; stash_save2 fails when
\* there is nothing to save.
CmdStashPush ==
    /\ cpc = "stash_push"
    /\ \E outcome \in Outcomes :
         IF outcome = "ok" /\ tracked_dirty
         THEN /\ stash_id' = "some"
              /\ stashed' = TRUE
              /\ tracked_dirty' = FALSE
         ELSE /\ stash_id' = "none"
              /\ UNCHANGED <<stashed, tracked_dirty>>
    /\ cpc' = "is_dirty"
    /\ UNCHANGED <<pop_flag, snapshot_file, other_dirty, popped, exit_code,
                   repoVars, applyVars, graphVars, configVars>>

\* stash_pop(repo, stash_id): nothing without an id; with one, the entry is
\* popped, or the failure is logged and the entry stays in refs/stash.
StashPop ==
    \E outcome \in Outcomes :
        IF stash_id # "some"
        THEN /\ popped' = "no_stash"
             /\ UNCHANGED <<stashed, tracked_dirty>>
        ELSE IF outcome = "ok"
        THEN /\ popped' = "ok"
             /\ stashed' = FALSE
             /\ tracked_dirty' = TRUE
        ELSE /\ popped' = "err"
             /\ UNCHANGED <<stashed, tracked_dirty>>

\* main.rs:212-217 with a dirty tree: stash_pop, then the usage error.
CmdAbortDirty ==
    /\ cpc = "is_dirty"
    /\ IsDirty(tracked_dirty, other_dirty)
    /\ StashPop
    /\ exit_code' = "usage"
    /\ cpc' = "exit"
    /\ UNCHANGED <<pop_flag, snapshot_file, other_dirty, stash_id,
                   repoVars, applyVars, graphVars, configVars>>

\* main.rs:212 with a clean tree, main.rs:219: Snapshot::apply is called.
CmdCallApply ==
    /\ cpc = "is_dirty"
    /\ ~IsDirty(tracked_dirty, other_dirty)
    /\ pc' = "plan"
    /\ cpc' = "apply"
    /\ UNCHANGED <<pop_flag, snapshot_file, tracked_dirty, other_dirty, stash_id,
                   stashed, popped, exit_code, repoVars, snapshot, head_branch_name,
                   planned_changes, idx, transaction, result, captured, ops,
                   refs0, head0, worktree0, graphVars, configVars>>

\* main.rs:219-221: Snapshot::apply returned an error, which `?` returns.
CmdApplyFailed ==
    /\ cpc = "apply"
    /\ pc = "done"
    /\ result = "err"
    /\ exit_code' = ExitCode(result, popped)
    /\ cpc' = "exit"
    /\ UNCHANGED <<pop_flag, snapshot_file, tracked_dirty, other_dirty, stash_id,
                   stashed, popped, repoVars, applyVars, graphVars, configVars>>

\* main.rs:223: stash_pop after Snapshot::apply returned Ok.
CmdStashPop ==
    /\ cpc = "apply"
    /\ pc = "done"
    /\ result = "ok"
    /\ StashPop
    /\ cpc' = "remove"
    /\ UNCHANGED <<pop_flag, snapshot_file, other_dirty, stash_id, exit_code,
                   repoVars, applyVars, graphVars, configVars>>

\* An end of the command that removes the snapshot file for apply as for pop.
CmdFinishRemoves ==
    /\ cpc = "remove"
    /\ \E outcome \in Outcomes :
         snapshot_file' = IF outcome = "ok" THEN "none" ELSE snapshot_file
    /\ exit_code' = ExitCode(result, popped)
    /\ cpc' = "exit"
    /\ UNCHANGED <<pop_flag, tracked_dirty, other_dirty, stash_id, stashed, popped,
                   repoVars, applyVars, graphVars, configVars>>

\* main.rs:224-233: pop removes the snapshot file, ignoring a failure to.
CmdFinish ==
    /\ cpc = "remove"
    /\ \E outcome \in Outcomes :
         snapshot_file' = IF pop_flag /\ outcome = "ok" THEN "none" ELSE snapshot_file
    /\ exit_code' = ExitCode(result, popped)
    /\ cpc' = "exit"
    /\ UNCHANGED <<pop_flag, tracked_dirty, other_dirty, stash_id, stashed, popped,
                   repoVars, applyVars, graphVars, configVars>>

CmdInit ==
    /\ refs \in {rs \in [RefNames -> Objects \cup {Zero}] :
                    rs["HEAD"] = Zero /\ rs[NonUtf8] = Zero}
    /\ head \in HeadStates(refs)
    /\ worktree = HeadId(head, refs)
    /\ snapshot_file \in {"none", "present", "corrupt"}
    /\ snapshot \in IF snapshot_file = "present"
                    THEN SeqsUpTo(SnapshotRecords, MaxRecords) ELSE {<<>>}
    /\ pop_flag \in BOOLEAN
    /\ tracked_dirty \in BOOLEAN
    /\ other_dirty \in BOOLEAN
    /\ stash_id = "unset"
    /\ stashed = FALSE
    /\ popped = "none"
    /\ exit_code = "none"
    /\ cpc = "peek"
    /\ head_branch_name = ""
    /\ planned_changes = <<>>
    /\ idx = 0
    /\ pc = "idle"
    /\ transaction = "none"
    /\ result = "none"
    /\ captured = <<>>
    /\ ops = <<>>
    /\ refs0 = refs
    /\ head0 = head
    /\ worktree0 = worktree
    /\ GraphIdle
    /\ ConfigIdle

CmdNext ==
    \/ CmdPeek
    \/ CmdStashPush
    \/ CmdAbortDirty
    \/ CmdCallApply
    \/ Plan
    \/ OpenTransaction
    \/ Detach
    \/ BranchHead
    \/ BranchOther
    \/ Switch
    \/ Commit
    \/ CmdApplyFailed
    \/ CmdStashPop
    \/ CmdFinish

CmdSpec == CmdInit /\ [][CmdNext]_vars

-----------------------------------------------------------------------------
(* The commit graph behind the graph builder *)

\* Commits are 1..NumCommits; a commit's parents have smaller ids, so the id
\* order is a topological order of the graph, oldest first.
NumCommits == 4
\* A commit has at most MaxParents parents (2: merge commits).
MaxParents == 2
\* Branch names are 1..NumBranches, ordered as the names' strings are.
NumBranches == 4

Commits == 1..NumCommits
\* No commit: Option::None of merge_base.
NoCommit == 0

Graphs ==
    {g \in [Commits -> SUBSET Commits] :
        \A c \in Commits :
            /\ \A q \in g[c] : q < c
            /\ Cardinality(g[c]) <= MaxParents}

\* The commits reachable from c, c included.
RECURSIVE Ancestors(_, _)
Ancestors(g, c) == {c} \cup UNION {Ancestors(g, q) : q \in g[c]}

Max(S) == CHOOSE x \in S : \A y \in S : y <= x

\* A merge base that is the first commit, whatever the second one is.
MergeBaseFirst(g, one, two) == one

\* GitRepo::merge_base: a best common ancestor of the two commits (a common
\* ancestor that is no ancestor of another common ancestor), the youngest
\* when there are several; NoCommit when the histories are disjoint.
MergeBase(g, one, two) ==
    LET common == Ancestors(g, one) \cap Ancestors(g, two)
        best   == {c \in common :
                     \A d \in common \ {c} : c \notin Ancestors(g, d)}
    IN IF common = {} THEN NoCommit ELSE Max(best)

\* A set of commits as a sequence, youngest first.
RECURSIVE Descending(_)
Descending(S) ==
    IF S = {} THEN <<>> ELSE <<Max(S)>> \o Descending(S \ {Max(S)})

\* GitRepo::commits_from: the revwalk from head in topological order,
\* children before parents.
CommitsFrom(g, head_id) == Descending(Ancestors(g, head_id))

-----------------------------------------------------------------------------
(* Sequences *)

Reverse(seq) == [i \in 1..Len(seq) |-> seq[Len(seq) + 1 - i]]

\* Iterator::take_while
RECURSIVE TakeWhileNot(_, _)
TakeWhileNot(seq, stop) ==
    IF seq = <<>> \/ Head(seq) = stop THEN <<>>
    ELSE <<Head(seq)>> \o TakeWhileNot(Tail(seq), stop)

Range(seq) == {seq[i] : i \in DOMAIN seq}

Permutations_(S) ==
    {p \in [1..Cardinality(S) -> S] : \A i, j \in DOMAIN p : p[i] = p[j] => i = j}

\* slice::sort_by_key: a stable sort, an element going after the elements
\* whose key is not greater.
RECURSIVE InsertByKey(_, _, _)
InsertByKey(sorted, x, key) ==
    IF sorted = <<>> THEN <<x>>
    ELSE LET last == sorted[Len(sorted)]
         IN IF key[last] <= key[x]
            THEN Append(sorted, x)
            ELSE Append(InsertByKey(SubSeq(sorted, 1, Len(sorted) - 1), x, key), last)

RECURSIVE SortByKeyUpTo(_, _, _)
SortByKeyUpTo(seq, key, k) ==
    IF k = 0 THEN <<>>
    ELSE InsertByKey(SortByKeyUpTo(seq, key, k - 1), seq[k], key)

\* A sort that leaves the sequence in the order the map iterated it.
SortByKeyKeeps(seq, key) == seq

SortByKey(seq, key) == SortByKeyUpTo(seq, key, Len(seq))

-----------------------------------------------------------------------------
(* The Branch Index (git::Branches): commit id -> the branches at that tip *)

\* Branches::is_empty
IsEmpty(index) == \A c \in Commits : index[c] = <<>>

\* Branches::oids: the tips of the index.
Oids(index) == {c \in Commits : index[c] # <<>>}

\* Branches::remove(oid): the index without the entry.
Remove(index, c) == [index EXCEPT ![c] = <<>>]

\* The names of the branches of an index.
IndexBranches(index) == UNION {Range(index[c]) : c \in Commits}

\* The index of branches 1..k with tip[b] the tip of branch b, the branches
\* of a tip in the order of their names.
RECURSIVE Ascending(_)
Ascending(S) ==
    IF S = {} THEN <<>> ELSE Ascending(S \ {Max(S)}) \o <<Max(S)>>

IndexOf(tip) == [c \in Commits |-> Ascending({b \in DOMAIN tip : tip[b] = c})]

Indexes == {IndexOf(tip) : tip \in UNION {[1..k -> Commits] : k \in 0..NumBranches}}

-----------------------------------------------------------------------------
(* graph::Node *)

\* A node holds its commit, the branches at it and its child stacks.  The
\* fields action and pushable are set once by Node::new and never read here.
MkNode(c, bs, st) == [commit |-> c, branches |-> bs, stacks |-> st]

\* A node that forgets the branches of its commit.
NodeNewBare(c, index) == [node |-> MkNode(c, <<>>, <<>>), index |-> Remove(index, c)]

\* Node::new: the node takes the branches of its commit out of the index.
NodeNew(c, index) == [node |-> MkNode(c, index[c], <<>>), index |-> Remove(index, c)]

\* A walk whose nodes each hold the commit walked before them as a child
\* stack of their own, besides being followed by it in the run.
WalkNodesNested(walk, index) ==
    [i \in DOMAIN walk |->
        MkNode(walk[i], index[walk[i]],
               IF i > 1 THEN << <<MkNode(walk[i - 1], <<>>, <<>>)>> >> ELSE <<>>)]

\* The nodes Node::populate makes for the commits walked (node.rs:123-127).
WalkNodes(walk, index) == [i \in DOMAIN walk |-> MkNode(walk[i], index[walk[i]], <<>>)]

RECURSIVE RemoveAll(_, _)
RemoveAll(index, walk) ==
    IF walk = <<>> THEN index ELSE RemoveAll(Remove(index, Head(walk)), Tail(walk))

\* A populate that gives the node a child stack even when the run is empty.
PopulateAlways(g, base_oid, head_oid, index) ==
    LET merge_base_oid == MergeBase(g, base_oid, head_oid)
    IN IF merge_base_oid = NoCommit
       THEN [err |-> "Could not find merge base", node |-> <<>>, index |-> index]
       ELSE IF merge_base_oid # base_oid
       THEN [err |-> "HEAD must be a descendant of base", node |-> <<>>, index |-> index]
       ELSE LET base  == NodeNew(base_oid, index)
                walk  == TakeWhileNot(CommitsFrom(g, head_oid), base_oid)
                stack == Reverse(WalkNodes(walk, base.index))
            IN [err   |-> "",
                node  |-> [base.node EXCEPT !.stacks = Append(@, stack)],
                index |-> RemoveAll(base.index, walk)]

\* Node::populate: the node of base_oid with the run of commits from base_oid
\* (excluded) to head_oid as its one child stack.  The nodes of the run are
\* new and have no child stacks, so delinearize_stack (node.rs:129), which
\* regroups a run at the nodes that have child stacks, finds nothing to cut.
Populate(g, base_oid, head_oid, index) ==
    LET merge_base_oid == MergeBase(g, base_oid, head_oid)
    IN IF merge_base_oid = NoCommit
       THEN [err |-> "Could not find merge base", node |-> <<>>, index |-> index]
       ELSE IF merge_base_oid # base_oid
       THEN [err |-> "HEAD must be a descendant of base", node |-> <<>>, index |-> index]
       ELSE LET base  == NodeNew(base_oid, index)
                walk  == TakeWhileNot(CommitsFrom(g, head_oid), base_oid)
                stack == Reverse(WalkNodes(walk, base.index))
            IN [err   |-> "",
                node  |-> IF stack # <<>>
                          THEN [base.node EXCEPT !.stacks = Append(@, stack)]
                          ELSE base.node,
                index |-> RemoveAll(base.index, walk)]

\* The number of leading positions at which both runs hold the same commit.
CommonPrefix(lhs_nodes, rhs_nodes) ==
    LET n == IF Len(lhs_nodes) < Len(rhs_nodes) THEN Len(lhs_nodes) ELSE Len(rhs_nodes)
    IN Max({k \in 0..n : \A i \in 1..k : lhs_nodes[i].commit = rhs_nodes[i].commit})

RECURSIVE MergeStacksFrom(_, _, _)
RECURSIVE MergeStack(_, _)
RECURSIVE MergeInto(_, _, _)
RECURSIVE MergeStacksPushed(_, _, _, _)
RECURSIVE MergeIntoTried(_, _, _)
RECURSIVE MergeStackForked(_, _, _)
RECURSIVE MergeStackAt(_, _, _)
RECURSIVE MergeStackShared(_, _, _)

\* merge_stacks
MergeStacks(lhs_node, rhs_node) ==
    IF lhs_node.commit # rhs_node.commit
    THEN [node |-> lhs_node, panic |-> "assert_eq commit ids"]
    ELSE MergeStacksFrom(lhs_node, rhs_node.stacks, 1)

\* node.rs:175-177 and the next turn of the outer loop: what is left of the
\* run after the stacks of lhs were tried (r) becomes a new stack.
MergeStacksPushed(lhs_node, rhs_node_stacks, j, r) ==
    IF r.panic # "" THEN [node |-> lhs_node, panic |-> r.panic]
    ELSE MergeStacksFrom(
            [lhs_node EXCEPT !.stacks = IF r.rhs # <<>> THEN Append(r.stacks, r.rhs)
                                        ELSE r.stacks],
            rhs_node_stacks, j + 1)

\* The loop of node.rs:167-178 from the j-th stack of rhs on.
MergeStacksFrom(lhs_node, rhs_node_stacks, j) ==
    IF j > Len(rhs_node_stacks) THEN [node |-> lhs_node, panic |-> ""]
    ELSE IF rhs_node_stacks[j] = <<>>
    THEN [node |-> lhs_node, panic |-> "empty rhs stack"]
    ELSE MergeStacksPushed(lhs_node, rhs_node_stacks, j,
                           MergeInto(lhs_node.stacks, rhs_node_stacks[j], 1))

\* A loop over the candidates that gives up after the first one.
MergeIntoTriedOnce(lhs_stacks, k, r) ==
    [stacks |-> [lhs_stacks EXCEPT ![k] = r.lhs], rhs |-> r.rhs, panic |-> r.panic]

\* node.rs:170-173: r is what merge_stack made of the k-th stack of lhs and the
\* run; the loop ends when the run was taken.
MergeIntoTried(lhs_stacks, k, r) ==
    IF r.panic # "" \/ r.rhs = <<>>
    THEN [stacks |-> [lhs_stacks EXCEPT ![k] = r.lhs], rhs |-> r.rhs, panic |-> r.panic]
    ELSE MergeInto([lhs_stacks EXCEPT ![k] = r.lhs], r.rhs, k + 1)

\* The loop of node.rs:169-174: the stacks of lhs from the k-th on are tried
\* until one takes the run.
MergeInto(lhs_stacks, rhs_node_stack, k) ==
    IF k > Len(lhs_stacks)
    THEN [stacks |-> lhs_stacks, rhs |-> rhs_node_stack, panic |-> ""]
    ELSE MergeIntoTried(lhs_stacks, k, MergeStack(lhs_stacks[k], rhs_node_stack))

\* node.rs:192-199: the branches of the first index nodes of rhs move to lhs.
TakeBranches(lhs_nodes, rhs_nodes, index) ==
    [i \in DOMAIN lhs_nodes |->
        IF i <= index
        THEN [lhs_nodes[i] EXCEPT !.branches = @ \o rhs_nodes[i].branches]
        ELSE lhs_nodes[i]]

GiveBranches(rhs_nodes, index) ==
    [i \in DOMAIN rhs_nodes |->
        IF i <= index THEN [rhs_nodes[i] EXCEPT !.branches = <<>>] ELSE rhs_nodes[i]]

\* A fork that clears the new run without handing its rest to any node.
MergeStackForkedDropped(lhs, index, m) ==
    [lhs |-> lhs, rhs |-> <<>>, panic |-> ""]

\* node.rs:218-224: the node before the fork takes the rest of rhs as a stack.
MergeStackForked(lhs, index, m) ==
    [lhs |-> [lhs EXCEPT ![index] = m.node], rhs |-> <<>>, panic |-> m.panic]

\* A merge_stack that hands back what the runs do not share, to become a
\* sibling stack.
MergeStackAtSibling(lhs, rhs, index) ==
    [lhs |-> lhs,
     rhs |-> IF index < Len(rhs) THEN SubSeq(rhs, index + 1, Len(rhs)) ELSE <<>>,
     panic |-> ""]

\* node.rs:201-237: lhs and rhs with the branches moved, index nodes shared.
MergeStackAt(lhs, rhs, index) ==
    IF index < Len(lhs) /\ index < Len(rhs)
    THEN \* Both: the runs differ at index
         IF index = 0
         THEN [lhs |-> lhs, rhs |-> rhs, panic |-> ""]
         ELSE IF rhs[index].stacks # <<>>
         THEN [lhs |-> lhs, rhs |-> rhs, panic |-> "assuming rhs is linear"]
         ELSE MergeStackForked(lhs, index,
                 MergeStacks(lhs[index],
                     [rhs[index] EXCEPT !.stacks = <<SubSeq(rhs, index + 1, Len(rhs))>>]))
    ELSE IF index < Len(rhs)
    THEN \* Right: rhs is a superset
         [lhs |-> [lhs EXCEPT ![Len(lhs)].stacks =
                       Append(@, SubSeq(rhs, index + 1, Len(rhs)))],
          rhs |-> <<>>, panic |-> ""]
    ELSE \* Left or None: lhs is a superset
         [lhs |-> lhs, rhs |-> <<>>, panic |-> ""]

\* merge_stack
MergeStackShared(lhs_nodes, rhs_nodes, index) ==
    MergeStackAt(TakeBranches(lhs_nodes, rhs_nodes, index),
                 GiveBranches(rhs_nodes, index), index)

MergeStack(lhs_nodes, rhs_nodes) ==
    IF lhs_nodes = <<>> \/ rhs_nodes = <<>>
    THEN [lhs |-> lhs_nodes, rhs |-> rhs_nodes, panic |-> "empty stack"]
    ELSE MergeStackShared(lhs_nodes, rhs_nodes, CommonPrefix(lhs_nodes, rhs_nodes))

\* A merge that forgets the branches of other's node.
MergeDropsBranches(self, other) == MergeStacks(self, other)

\* Node::merge
Merge(self, other) ==
    MergeStacks([self EXCEPT !.branches = @ \o other.branches],
                [other EXCEPT !.branches = <<>>])

RECURSIVE FindPush(_, _)
RECURSIVE FindPushFrom(_, _, _, _)
RECURSIVE FindPushTried(_, _, _, _, _)

\* node.rs:145-147: r tells whether node n of stack s took the push.
FindPushTried(self, id, s, n, r) ==
    IF r.found
    THEN [found |-> TRUE, path |-> << <<s, n>> >> \o r.path]
    ELSE FindPushFrom(self, id, s, n + 1)

\* The loops of node.rs:143-149 from node n of stack s on: the place of the
\* first node that takes the push, as the <<stack, position>> steps to it.
FindPushFrom(self, id, s, n) ==
    IF s > Len(self.stacks) THEN [found |-> FALSE, path |-> <<>>]
    ELSE IF n > Len(self.stacks[s]) THEN FindPushFrom(self, id, s + 1, 1)
    ELSE FindPushTried(self, id, s, n, FindPush(self.stacks[s][n], id))

\* A search that looks at the node alone and never into its child stacks.
FindPushHere(self, id) ==
    [found |-> self.commit = id, path |-> <<>>]

\* The node Node::push reaches: self when it holds the commit, else the first
\* node of its stacks, in order, that does.
FindPush(self, id) ==
    IF self.commit = id THEN [found |-> TRUE, path |-> <<>>]
    ELSE FindPushFrom(self, id, 1, 1)

RECURSIVE NodeAt(_, _)
NodeAt(self, path) ==
    IF path = <<>> THEN self
    ELSE NodeAt(self.stacks[path[1][1]][path[1][2]], Tail(path))

RECURSIVE ReplaceAt(_, _, _)
ReplaceAt(self, path, node) ==
    IF path = <<>> THEN node
    ELSE [self EXCEPT !.stacks[path[1][1]][path[1][2]] = ReplaceAt(@, Tail(path), node)]

\* A push that keeps the commit and the branches of other but not its stacks.
PushMergedBare(self, path, m) ==
    [pushed |-> TRUE, node |-> ReplaceAt(self, path, [m.node EXCEPT !.stacks = <<>>]),
     panic |-> m.panic]

\* node.rs:138-140: other is merged into the node found at path.
PushMerged(self, path, m) ==
    [pushed |-> TRUE, node |-> ReplaceAt(self, path, m.node), panic |-> m.panic]

PushAt(self, other, f) ==
    IF ~f.found
    THEN [pushed |-> FALSE, node |-> self, panic |-> ""]
    ELSE PushMerged(self, f.path, Merge(NodeAt(self, f.path), other))

\* A push that finds no node to take other.
PushRefused(self, other) == [pushed |-> FALSE, node |-> self, panic |-> ""]

\* Node::push: other is merged into the node of its commit, if there is one.
Push(self, other) == PushAt(self, other, FindPush(self, other.commit))

\* Node::insert.  status is ok, error (an Err is returned) or panic.
InsertResult(status, reason, node, index) ==
    [status |-> status, reason |-> reason, node |-> node, index |-> index]

\* node.rs:72: the populated run was merged into the root.
InsertMerged(self, merged, index) ==
    IF merged.panic # ""
    THEN InsertResult("panic", merged.panic, self, index)
    ELSE InsertResult("ok", "", merged.node, index)

\* node.rs:71-72: other is what populate made of the run to the new tip.
InsertPopulated(self, other, index) ==
    IF other.err # ""
    THEN InsertResult("error", other.err, self, index)
    ELSE InsertMerged(self, Merge(self, other.node), other.index)

\* node.rs:70-73: the run to the new tip is populated under the root and merged.
InsertUnder(g, self, self_id, other_id, index) ==
    InsertPopulated(self, Populate(g, self_id, other_id, index), index)

\* node.rs:66-68: the old tree was pushed into the run from the merge base.
InsertPushed(g, self, merge_base_id, other_id, pushed, index) ==
    IF pushed.panic # ""
    THEN InsertResult("panic", pushed.panic, self, index)
    ELSE IF ~pushed.pushed
    THEN InsertResult("panic", "assert pushed", self, index)
    ELSE InsertUnder(g, pushed.node, merge_base_id, other_id, index)

\* node.rs:65-66: prefix is the run from the merge base to the old root.
InsertPrefixed(g, self, merge_base_id, other_id, prefix, index) ==
    IF prefix.err # ""
    THEN InsertResult("error", prefix.err, self, index)
    ELSE InsertPushed(g, self, merge_base_id, other_id,
                      Push(prefix.node, self), prefix.index)

\* node.rs:64-68: the tree is pushed down under the merge base.
InsertPushedDown(g, self, merge_base_id, other_id, index) ==
    InsertPrefixed(g, self, merge_base_id, other_id,
                   Populate(g, merge_base_id, self.commit, index), index)

\* An insert that leaves out a tip it finds no merge base for.
InsertFromSkips(g, self, merge_base_id, other_id, index) ==
    IF merge_base_id = NoCommit
    THEN InsertResult("ok", "", self, index)
    ELSE IF merge_base_id # self.commit
    THEN InsertPushedDown(g, self, merge_base_id, other_id, index)
    ELSE InsertUnder(g, self, self.commit, other_id, index)

\* node.rs:58-69
InsertFrom(g, self, merge_base_id, other_id, index) ==
    IF merge_base_id = NoCommit
    THEN InsertResult("error", "Could not find merge base", self, index)
    ELSE IF merge_base_id # self.commit
    THEN InsertPushedDown(g, self, merge_base_id, other_id, index)
    ELSE InsertUnder(g, self, self.commit, other_id, index)

\* Node::insert
Insert(g, self, other_id, index) ==
    InsertFrom(g, self, MergeBase(g, self.commit, other_id), other_id, index)

\* node.rs:38-39: the tips in the order the map iterates them, sorted by the
\* name of the first branch at each tip.
SortedBranchIds(index, order) ==
    SortByKey(order, [c \in Commits |-> IF index[c] = <<>> THEN 0 ELSE index[c][1]])

-----------------------------------------------------------------------------
(* Node::from_branches, one action per call of Node::insert *)

NoNode == <<>>

\* An empty index that is taken for a programming error.
NoBranchesPanics(index) == InsertResult("panic", "no branches to graph", NoNode, index)

\* node.rs:34-36: eyre::bail!("no branches to graph")
NoBranches(index) == InsertResult("error", "no branches to graph", NoNode, index)

\* node.rs:34-42: the empty index is refused; otherwise the tips are sorted
\* and the first one seeds the root.
FromBranchesStart ==
    /\ gpc = "start"
    /\ IF IsEmpty(branches)
       THEN /\ gpc' = NoBranches(branches).status
            /\ UNCHANGED <<oids, branches, branch_ids, root, queried>>
       ELSE \E order \in Permutations_(Oids(branches)) :
               LET ids   == SortedBranchIds(branches, order)
                   first == NodeNew(Head(ids), branches)
               IN /\ oids' = order
                  /\ queried' = TRUE
                  /\ root' = first.node
                  /\ branches' = first.index
                  /\ branch_ids' = Tail(ids)
                  /\ gpc' = IF Tail(ids) = <<>> THEN "done" ELSE "insert"
    /\ UNCHANGED <<parents, input, inserted, repoVars, applyVars, commandVars, configVars>>

\* node.rs:43-46: root = root.insert(repo, branch_commit, &mut branches)?
FromBranchesInsert ==
    /\ gpc = "insert"
    /\ LET r == Insert(parents, root, Head(branch_ids), branches)
       IN /\ branch_ids' = Tail(branch_ids)
          /\ inserted' = [self |-> root, tip |-> Head(branch_ids), index |-> branches]
          /\ queried' = TRUE
          /\ branches' = r.index
          /\ root' = IF r.status = "ok" THEN r.node ELSE NoNode
          /\ gpc' = IF r.status # "ok" THEN r.status
                    ELSE IF Tail(branch_ids) = <<>> THEN "done" ELSE "insert"
    /\ UNCHANGED <<parents, input, oids, repoVars, applyVars, commandVars, configVars>>

\* The for loop of node.rs:43-46 run to its end over the tips ids.
RECURSIVE InsertAll(_, _, _, _)
RECURSIVE InsertAllNext(_, _, _)
InsertAllNext(g, ids, r) ==
    IF r.status # "ok" THEN r ELSE InsertAll(g, r.node, Tail(ids), r.index)

InsertAll(g, self, ids, index) ==
    IF ids = <<>> THEN InsertResult("ok", "", self, index)
    ELSE InsertAllNext(g, ids, Insert(g, self, Head(ids), index))

\* node.rs:40-46: the first of the sorted tips seeds the root.
FromBranchesSeeded(g, ids, first) == InsertAll(g, first.node, Tail(ids), first.index)

FromBranchesSorted(g, index, ids) == FromBranchesSeeded(g, ids, NodeNew(Head(ids), index))

\* Node::from_branches as one call, the map iterating its tips in order.
FromBranches(g, index, order) ==
    IF IsEmpty(index)
    THEN NoBranches(index)
    ELSE FromBranchesSorted(g, index, SortedBranchIds(index, order))

ApplyIdle ==
    /\ refs = [n \in RefNames |-> Zero]
    /\ head = Detached(Zero)
    /\ worktree = Zero
    /\ snapshot = <<>>
    /\ head_branch_name = ""
    /\ planned_changes = <<>>
    /\ idx = 0
    /\ pc = "idle"
    /\ transaction = "none"
    /\ result = "none"
    /\ captured = <<>>
    /\ ops = <<>>
    /\ refs0 = refs
    /\ head0 = head
    /\ worktree0 = worktree

GraphInit ==
    /\ parents \in Graphs
    /\ input \in Indexes
    /\ branches = input
    /\ oids = <<>>
    /\ branch_ids = <<>>
    /\ root = NoNode
    /\ queried = FALSE
    /\ gpc = "start"
    /\ inserted = <<>>
    /\ ApplyIdle
    /\ CommandIdle
    /\ ConfigIdle

GraphNext ==
    \/ FromBranchesStart
    \/ FromBranchesInsert

GraphSpec == GraphInit /\ [][GraphNext]_vars

-----------------------------------------------------------------------------
(* RepoConfig (config.rs) *)

\* Option<T>
None == [some |-> FALSE]
Some(v) == [some |-> TRUE, value |-> v]

MaxEntries == 1
MaxCapacity == 2

DEFAULT_PROTECTED_BRANCHES == <<"main", "master", "dev", "stable">>
DEFAULT_CAPACITY == 30

\* #[derive(Default)] for RepoConfig
DefaultConfig == [protected_branches |-> None, capacity |-> None]

\* The sources from_all reads after the defaults, in the order it merges them.
\* The environment is read as two (from_env): the GIT_CONFIG_PARAMETERS
\* entries, then the GIT_CONFIG_COUNT entries.
SourceNames == <<"global", "workdir", "repo", "env_parameters", "env_count">>

\* What from_gitconfig or from_env_iter makes of a source that holds n
\* protected-branch entries: no list when it holds none.
Entries(name, n) ==
    IF n = 0 THEN None ELSE Some([i \in 1..n |-> <<name, i>>])

\* The configurations a source may hold.
SourceConfigs(name) ==
    [protected_branches : {Entries(name, n) : n \in 0..MaxEntries},
     capacity : {None} \cup {Some(c) : c \in 1..MaxCapacity}]

\* A RepoConfig::update that lets the later list replace the earlier one.
UpdateReplaces(self, other) ==
    [protected_branches |-> IF other.protected_branches.some
                            THEN other.protected_branches
                            ELSE self.protected_branches,
     capacity |-> IF other.capacity.some THEN other.capacity ELSE self.capacity]

\* RepoConfig::update
Update(self, other) ==
    [protected_branches |->
        IF self.protected_branches.some /\ other.protected_branches.some
        THEN Some(self.protected_branches.value \o other.protected_branches.value)
        ELSE IF other.protected_branches.some
        THEN other.protected_branches
        ELSE self.protected_branches,
     capacity |-> IF other.capacity.some THEN other.capacity ELSE self.capacity]

\* RepoConfig::from_defaults_internal: opened tells whether the default git
\* config could be opened, default_branch is its init.defaultBranch or "main".
FromDefaultsInternal(opened, default_branch) ==
    [protected_branches |->
        Some((IF opened THEN <<default_branch>> ELSE <<>>) \o DEFAULT_PROTECTED_BRANCHES),
     capacity |-> Some(DEFAULT_CAPACITY)]

\* RepoConfig::from_env
FromEnv(env_parameters, env_count) ==
    Update(Update(DefaultConfig, env_parameters), env_count)

\* config.rs:17-24
LoadDefaults ==
    /\ cfg_pc = "defaults"
    /\ config' = FromDefaultsInternal(sources.opened, sources.default_branch)
    /\ cfg_pc' = "global"
    /\ UNCHANGED <<sources, repoVars, applyVars, graphVars, commandVars>>

\* config.rs:25-29
UpdateGlobal ==
    /\ cfg_pc = "global"
    /\ config' = IF sources.opened THEN Update(config, sources.global) ELSE config
    /\ cfg_pc' = "workdir"
    /\ UNCHANGED <<sources, repoVars, applyVars, graphVars, commandVars>>

\* config.rs:30: from_workdir fails in a bare repository and from_all with it.
UpdateWorkdir ==
    /\ cfg_pc = "workdir"
    /\ IF sources.bare
       THEN /\ cfg_pc' = "error"
            /\ UNCHANGED config
       ELSE /\ config' = Update(config, sources.workdir)
            /\ cfg_pc' = "repo"
    /\ UNCHANGED <<sources, repoVars, applyVars, graphVars, commandVars>>

\* config.rs:31
UpdateRepo ==
    /\ cfg_pc = "repo"
    /\ config' = Update(config, sources.repo)
    /\ cfg_pc' = "env"
    /\ UNCHANGED <<sources, repoVars, applyVars, graphVars, commandVars>>

\* config.rs:32-33
UpdateEnv ==
    /\ cfg_pc = "env"
    /\ config' = Update(config, FromEnv(sources.env_parameters, sources.env_count))
    /\ cfg_pc' = "done"
    /\ UNCHANGED <<sources, repoVars, applyVars, graphVars, commandVars>>

\* What the sources may hold when from_all is called.
SourceStates ==
    [opened : BOOLEAN, default_branch : {"main", "trunk"}, bare : BOOLEAN,
     global : SourceConfigs("global"), workdir : SourceConfigs("workdir"),
     repo : SourceConfigs("repo"),
     env_parameters : SourceConfigs("env_parameters"),
     env_count : SourceConfigs("env_count")]

ConfigInit ==
    /\ sources \in {src \in SourceStates :
                       /\ ~src.opened => (src.default_branch = "main" /\ src.global = DefaultConfig)
                       /\ src.bare => src.workdir = DefaultConfig}
    /\ config = DefaultConfig
    /\ cfg_pc = "defaults"
    /\ ApplyIdle
    /\ GraphIdle
    /\ CommandIdle

ConfigNext ==
    \/ LoadDefaults
    \/ UpdateGlobal
    \/ UpdateWorkdir
    \/ UpdateRepo
    \/ UpdateEnv

ConfigSpec == ConfigInit /\ [][ConfigNext]_vars

-----------------------------------------------------------------------------
(* Properties of the graph builder *)

RECURSIVE ConcatAll(_)
ConcatAll(seqs) == IF seqs = <<>> THEN <<>> ELSE Head(seqs) \o ConcatAll(Tail(seqs))

\* Every node of a tree: the node, then the nodes of its child stacks.
RECURSIVE TreeNodes(_)
TreeNodes(node) ==
    <<node>> \o ConcatAll([s \in DOMAIN node.stacks |->
                  ConcatAll([n \in DOMAIN node.stacks[s] |->
                      TreeNodes(node.stacks[s][n])])])

TreeCommits(node) ==
    LET ns == TreeNodes(node) IN [i \in DOMAIN ns |-> ns[i].commit]

TreeBranches(node) ==
    LET ns == TreeNodes(node) IN ConcatAll([i \in DOMAIN ns |-> ns[i].branches])

Count(seq, x) == Cardinality({i \in DOMAIN seq : seq[i] = x})

\* from_branches returned Ok(root).
Built == gpc = "done"

\* C2: after from_branches and after every insert, no commit id is held by
\* more than one node of the tree.
C2_NoCommitTwice ==
    gpc \in {"insert", "done"} =>
        LET held == TreeCommits(root)
        IN \A c \in Commits : Count(held, c) <= 1

\* C3: when from_branches succeeds, every branch of the input index is in the
\* branch list of exactly one node of the tree, and once in that list.
C3_EveryBranchOnce ==
    Built => LET placed == TreeBranches(root)
             IN \A b \in IndexBranches(input) : Count(placed, b) = 1

\* Two branches share a tip, a tip is an ancestor of another tip, and the
\* root was pushed down under a merge base older than the first tip.
C3_Witness ==
    /\ Built
    /\ \E c \in Commits : Len(input[c]) >= 2
    /\ \E c, d \in Oids(input) : c # d /\ c \in Ancestors(parents, d)
    /\ root.commit # Head(SortedBranchIds(input, oids))

\* C10: whatever order the map of the index iterates its tips in,
\* from_branches returns what it returns when the map iterates them in
\* ascending order: the same tree, or the same refusal.
C10_Deterministic ==
    gpc \in {"done", "error", "panic"} =>
        LET r == FromBranches(parents, input, Ascending(Oids(input)))
        IN /\ gpc = (IF r.status = "ok" THEN "done" ELSE r.status)
           /\ root = (IF r.status = "ok" THEN r.node ELSE NoNode)

\* A tree of three tips or more was built from a map that iterated them
\* neither in ascending order nor in the order of their branch names.
C10_Witness ==
    /\ Built
    /\ Len(oids) >= 3
    /\ oids # Ascending(Oids(input))
    /\ oids # SortedBranchIds(input, oids)
    /\ Len(root.stacks) >= 2

\* C15: from_branches on an empty index returns the error "no branches to
\* graph": it builds no tree, does not panic and asks the repository nothing.
C15_EmptyIndexRefused ==
    (IsEmpty(input) /\ gpc # "start") =>
        /\ gpc = "error"
        /\ root = NoNode
        /\ ~queried
        /\ FromBranches(parents, input, <<>>).reason = "no branches to graph"

\* from_branches returned on an empty index over a graph that has commits
\* with parents.
C15_Witness ==
    /\ IsEmpty(input)
    /\ gpc = "error"
    /\ \E c \in Commits : parents[c] # {}

\* Two tips of the input index have no commit of their history in common.
DisjointTips ==
    \E c, d \in Oids(input) :
        Ancestors(parents, c) \cap Ancestors(parents, d) = {}

\* C16: when two tips have disjoint history, from_branches neither returns a
\* tree nor panics: it returns the error of the merge base that was not
\* found, and the tree built so far is dropped.
C16_DisjointIsError ==
    DisjointTips =>
        /\ gpc \notin {"done", "panic"}
        /\ gpc = "error" =>
              /\ root = NoNode
              /\ FromBranches(parents, input, oids).reason = "Could not find merge base"

\* from_branches returned the error after it had inserted a tip.
C16_Witness ==
    /\ DisjointTips
    /\ gpc = "error"
    /\ Len(oids) >= 3
    /\ Len(branch_ids) <= Len(oids) - 3

\* from_branches returned, with a tree or without.
GraphReturned == gpc \in {"done", "error", "panic"}

\* The index holds one branch at a (main) and one at b (feature), and a is
\* the one parent of b.
MainAndFeature(a, b) ==
    /\ a # b
    /\ Oids(input) = {a, b}
    /\ Len(input[a]) = 1
    /\ Len(input[b]) = 1
    /\ parents[b] = {a}

\* C17: for main at A and feature at B, a child of A, from_branches returns
\* the node of A with main and one child stack, whose one node is that of B
\* with feature.
C17_MainThenFeature ==
    \A a, b \in Commits :
        (MainAndFeature(a, b) /\ GraphReturned) =>
            /\ Built
            /\ root = MkNode(a, input[a], << <<MkNode(b, input[b], <<>>)>> >>)

\* The tree was built with the tip of feature seeding the root, its name
\* sorting before the name of main.
C17_Witness ==
    \E a, b \in Commits :
        /\ MainAndFeature(a, b)
        /\ Built
        /\ input[b][1] < input[a][1]
        /\ root.commit = a

\* The index holds one branch at a (main) and one at each of t1 and t2, two
\* lines without merges that leave a and share no commit beyond it.
Fork(a, t1, t2) ==
    /\ Cardinality({a, t1, t2}) = 3
    /\ Oids(input) = {a, t1, t2}
    /\ \A c \in {a, t1, t2} : Len(input[c]) = 1
    /\ a \in Ancestors(parents, t1) \cap Ancestors(parents, t2)
    /\ Ancestors(parents, t1) \cap Ancestors(parents, t2) = Ancestors(parents, a)
    /\ \A c \in Ancestors(parents, t1) \cup Ancestors(parents, t2) :
          Cardinality(parents[c]) <= 1

\* The line from a (excluded) to the tip t as a child stack, oldest first.
Line(a, t) ==
    LET run == Ascending(Ancestors(parents, t) \ Ancestors(parents, a))
    IN [i \in DOMAIN run |-> MkNode(run[i], input[run[i]], <<>>)]

\* C18: for main at A and two lines that fork at A, from_branches returns the
\* node of A with main and exactly two child stacks, the line to B1 and the
\* line to B2, whichever tip is processed first.
C18_ForkGivesSiblings ==
    \A a, t1, t2 \in Commits :
        (Fork(a, t1, t2) /\ GraphReturned) =>
            /\ Built
            /\ root.commit = a
            /\ root.branches = input[a]
            /\ Len(root.stacks) = 2
            /\ Range(root.stacks) = {Line(a, t1), Line(a, t2)}

\* The tree of a fork was built with main the last tip processed, the root
\* pushed down from the tip of a line to A.
C18_Witness ==
    \E a, t1, t2 \in Commits :
        /\ Fork(a, t1, t2)
        /\ Built
        /\ SortedBranchIds(input, oids)[3] = a
        /\ root.commit = a
        /\ Len(root.stacks) = 2

\* The commits reachable from a tip of the input index.
Reachable == UNION {Ancestors(parents, t) : t \in Oids(input)}

\* C11: the tree from_branches returns holds exactly the commits reachable
\* from the tips, each in one node: none missing, none repeated.
C11_OneNodePerReachable ==
    Built =>
        LET held == TreeCommits(root)
        IN /\ Range(held) = Reachable
           /\ \A c \in Commits : Count(held, c) <= 1

\* C22: an insert that succeeds on a tip whose merge base with the root is
\* not the root's commit returns a tree whose root is the node of the merge
\* base, with the whole previous tree as a node of one of its child stacks;
\* when the merge base is the root's commit, the root keeps its commit.
C22_PushedUnderMergeBase ==
    [][(gpc = "insert" /\ gpc' \in {"insert", "done"}) =>
          IF MergeBase(parents, root.commit, Head(branch_ids)) # root.commit
          THEN /\ (root').commit = MergeBase(parents, root.commit, Head(branch_ids))
               /\ \E s \in DOMAIN (root').stacks :
                     \E n \in DOMAIN (root').stacks[s] : (root').stacks[s][n] = root
          ELSE (root').commit = root.commit]_vars

\* The tree of the first tip had a child stack when a later tip pushed it
\* down under an older merge base, two commits or more below it.
C22_Witness ==
    /\ gpc \in {"insert", "done"}
    /\ root.commit # Head(SortedBranchIds(input, oids))
    /\ \E s \in DOMAIN root.stacks :
          /\ Len(root.stacks[s]) >= 2
          /\ \E n \in DOMAIN root.stacks[s] :
                /\ root.stacks[s][n].commit = Head(SortedBranchIds(input, oids))
                /\ root.stacks[s][n].stacks # <<>>

\* The run of new nodes the last insert populated and merged into the tree
\* it got, for a tip that descends from the root of that tree.
PopulatedRun(other) ==
    IF other.err # "" \/ other.node.stacks = <<>> THEN <<>> ELSE other.node.stacks[1]

LastRun ==
    IF DOMAIN inserted = {}
          \/ MergeBase(parents, inserted.self.commit, inserted.tip) # inserted.self.commit
    THEN <<>>
    ELSE PopulatedRun(Populate(parents, inserted.self.commit, inserted.tip, inserted.index))

Suffix(run, j) == SubSeq(run, j + 1, Len(run))

\* The calls merge_stack(lhs_nodes, rhs_nodes) the last insert can make: a
\* child stack of the root against the whole run, a child stack of the node
\* that holds the j-th commit of the run against what follows it in the run.
MergeCallsOf(nodes, run) ==
    UNION {UNION {{<<nodes[i].stacks[s], Suffix(run, j)>> : s \in DOMAIN nodes[i].stacks} :
                     j \in {j \in 0..(Len(run) - 1) :
                               \/ j = 0 /\ i = 1
                               \/ j >= 1 /\ nodes[i].commit = run[j].commit}} :
              i \in DOMAIN nodes}

MergeCalls ==
    IF LastRun = <<>> THEN {} ELSE MergeCallsOf(TreeNodes(inserted.self), LastRun)

\* The two runs agree on their first k >= 1 commits and both go on, apart.
ForkAfter(lhs, rhs, k) == k >= 1 /\ k < Len(lhs) /\ k < Len(rhs)

\* What C23 asks of r, merge_stack's result on lhs and rhs that fork after k.
ForkMerged(lhs, rhs, k, r) ==
    /\ r.panic = ""
    /\ r.rhs = <<>>
    /\ Len(r.lhs) = Len(lhs)
    /\ \A i \in 1..Len(lhs) : r.lhs[i].commit = lhs[i].commit
    /\ \A i \in 1..k : r.lhs[i].branches = lhs[i].branches \o rhs[i].branches
    /\ \A i \in 1..(k - 1) : r.lhs[i].stacks = lhs[i].stacks
    /\ \A i \in (k + 1)..Len(lhs) : r.lhs[i] = lhs[i]
    /\ Len(r.lhs[k].stacks) <= Len(lhs[k].stacks) + 1
    /\ \E s \in DOMAIN r.lhs[k].stacks : r.lhs[k].stacks[s][1].commit = rhs[k + 1].commit
    /\ \A i \in (k + 1)..Len(rhs) :
          /\ Count(TreeCommits(r.lhs[k]), rhs[i].commit) >= 1
          /\ \A b \in Range(rhs[i].branches) : Count(TreeBranches(r.lhs[k]), b) >= 1

\* C23: when merge_stack gets an existing child stack and a new run that
\* agree on their first k >= 1 commits and then differ in both, the existing
\* stack keeps its nodes, none added, the k shared ones with the branches of
\* the new run's nodes appended; the rest of the new run is found in a child
\* stack of the k-th existing node; the new run is left empty.
C23_ForkMergesUnderSharedNode ==
    \A call \in MergeCalls :
        ForkAfter(call[1], call[2], CommonPrefix(call[1], call[2])) =>
            ForkMerged(call[1], call[2], CommonPrefix(call[1], call[2]),
                       MergeStack(call[1], call[2]))

\* The last insert succeeded on a run that shares its first commit with a
\* child stack of the root and then leaves it, and the tree holds both lines
\* under the one node of the shared commit.
C23_Witness ==
    /\ Built
    /\ \E call \in MergeCalls :
          /\ ForkAfter(call[1], call[2], CommonPrefix(call[1], call[2]))
          /\ call[1] \in Range(inserted.self.stacks)
          /\ \E s \in DOMAIN root.stacks :
                /\ root.stacks[s][1].commit = call[2][1].commit
                /\ root.stacks[s][1].stacks # <<>>

\* The calls merge_stacks(lhs_node, rhs_node) the last insert can make, each
\* as <<lhs_node, the one child stack of rhs_node>>: the root with the whole
\* run, the node that holds the j-th commit of the run with what follows it.
MergeNodeCallsOf(nodes, run) ==
    UNION {{<<nodes[i], Suffix(run, j)>> :
               j \in {j \in 0..(Len(run) - 1) :
                         \/ j = 0 /\ i = 1
                         \/ j >= 1 /\ nodes[i].commit = run[j].commit}} :
              i \in DOMAIN nodes}

MergeNodeCalls ==
    IF LastRun = <<>> THEN {} ELSE MergeNodeCallsOf(TreeNodes(inserted.self), LastRun)

\* The child stacks of the node that start with the commit the run starts with.
Candidates(node, run) ==
    {s \in DOMAIN node.stacks : node.stacks[s][1].commit = run[1].commit}

Min(S) == CHOOSE x \in S : \A y \in S : x <= y

\* What C24 asks of r, merge_stacks' result on the node and the run.
SiblingOnlyIfNoCandidate(node, run, r) ==
    /\ r.panic = ""
    /\ r.node.commit = node.commit
    /\ IF Candidates(node, run) = {}
       THEN r.node.stacks = Append(node.stacks, run)
       ELSE /\ Len(r.node.stacks) = Len(node.stacks)
            /\ \A s \in DOMAIN node.stacks \ {Min(Candidates(node, run))} :
                  r.node.stacks[s] = node.stacks[s]
            /\ \A i \in DOMAIN run :
                  \E n \in DOMAIN r.node.stacks[Min(Candidates(node, run))] :
                      Count(TreeCommits(r.node.stacks[Min(Candidates(node, run))][n]),
                            run[i].commit) >= 1

\* C24: merge_stacks adds the new run as a new child stack of the merge node
\* exactly when no child stack of the node starts with the run's first
\* commit, every child stack then left as it was; otherwise the first child
\* stack that starts with that commit takes the whole run, the stacks tried
\* before it and all others are left as they were, and no stack is added.
C24_SiblingOnlyIfNoCandidate ==
    \A call \in MergeNodeCalls :
        SiblingOnlyIfNoCandidate(call[1], call[2],
            MergeStacks(call[1], MkNode(call[1].commit, <<>>, <<call[2]>>)))

\* The last insert succeeded on a run that the first child stack of the root
\* does not start like and the second one does.
C24_Witness ==
    /\ Built
    /\ \E call \in MergeNodeCalls :
          /\ call[1] = inserted.self
          /\ Len(call[1].stacks) >= 2
          /\ Candidates(call[1], call[2]) # {}
          /\ Min(Candidates(call[1], call[2])) = 2
          /\ Len(root.stacks) = Len(inserted.self.stacks)

\* The existing stack as merge_stack leaves it when it takes the branches of
\* the k nodes it shares with the run and nothing else.
WithBranchesOf(lhs, rhs, k) ==
    [i \in DOMAIN lhs |->
        IF i <= k THEN MkNode(lhs[i].commit, lhs[i].branches \o rhs[i].branches,
                              lhs[i].stacks)
        ELSE lhs[i]]

\* What C25 asks of r, merge_stack's result on lhs and rhs that share k nodes,
\* one of them ending there.
PrefixMerged(lhs, rhs, k, r) ==
    /\ r.panic = ""
    /\ r.rhs = <<>>
    /\ IF k < Len(rhs)
       THEN r.lhs = [WithBranchesOf(lhs, rhs, k) EXCEPT
                        ![k].stacks = Append(lhs[k].stacks, Suffix(rhs, k))]
       ELSE r.lhs = WithBranchesOf(lhs, rhs, k)

\* C25: when the new run starts with every commit of an existing child stack
\* and goes on, merge_stack appends the commits past the end of the existing
\* stack as a child stack of that stack's last node and leaves nothing of the
\* run to become a sibling; when the existing stack starts with the whole new
\* run, it keeps its nodes and their child stacks and no node is added.
C25_LongerRunGoesBeneath ==
    \A call \in MergeCalls :
        (CommonPrefix(call[1], call[2]) = Len(call[1])
            \/ CommonPrefix(call[1], call[2]) = Len(call[2])) =>
            PrefixMerged(call[1], call[2], CommonPrefix(call[1], call[2]),
                         MergeStack(call[1], call[2]))

\* The last insert succeeded on a run that goes on past the end of a child
\* stack of the root, and the tree holds the rest beneath that stack's last
\* node, the root having no more child stacks than before.
C25_Witness ==
    /\ Built
    /\ DOMAIN inserted # {}
    /\ \E s \in DOMAIN inserted.self.stacks :
          /\ <<inserted.self.stacks[s], LastRun>> \in MergeCalls
          /\ CommonPrefix(inserted.self.stacks[s], LastRun) = Len(inserted.self.stacks[s])
          /\ Len(LastRun) > Len(inserted.self.stacks[s])
          /\ Len(root.stacks) = Len(inserted.self.stacks)
          /\ root.stacks[s][Len(root.stacks[s])].stacks # <<>>

\* Commit a is an ancestor of commit b, and another commit.
Before(a, b) == a # b /\ a \in Ancestors(parents, b)

\* The child stack starts at a descendant of its owner's commit and each of
\* its nodes holds an ancestor of the next node's commit.
StackInOrder(owner, stack) ==
    /\ Before(owner.commit, stack[1].commit)
    /\ \A i \in 1..(Len(stack) - 1) : Before(stack[i].commit, stack[i + 1].commit)

\* The child stacks of the node are distinct lines: no two start at the same
\* commit.
StacksDiverge(node) ==
    \A s, t \in DOMAIN node.stacks :
        node.stacks[s][1].commit = node.stacks[t][1].commit => s = t

\* C26: in the tree after from_branches and after every insert, each child
\* stack starts at a descendant of its owner's commit, each of its nodes holds
\* an ancestor of the next node's commit, and the child stacks of a node are
\* distinct lines that leave its commit.
C26_StacksFollowHistory ==
    gpc \in {"insert", "done"} =>
        \A node \in Range(TreeNodes(root)) :
            /\ \A s \in DOMAIN node.stacks : StackInOrder(node, node.stacks[s])
            /\ StacksDiverge(node)

\* C27: from_branches never panics, so none of the assertions of merge_stacks
\* and merge_stack fails, and in the tree after from_branches and after
\* every insert every child stack of every node holds a node at least.
C27_NoEmptyStack ==
    /\ gpc # "panic"
    /\ gpc \in {"insert", "done"} =>
          \A node \in Range(TreeNodes(root)) :
              \A s \in DOMAIN node.stacks : node.stacks[s] # <<>>

\* The last insert succeeded on a tip that is the merge base of the root it
\* got and itself, so that populate made a node without a run for it, and the
\* tree was pushed down under that tip.
C27_Witness ==
    /\ Built
    /\ DOMAIN inserted # {}
    /\ inserted.tip = root.commit
    /\ inserted.self.commit # root.commit
    /\ inserted.self.stacks # <<>>

\* The last insert got a tip whose merge base with the root is not the root's
\* commit, so that it pushed the tree down (node.rs:63-69).
PushedDown ==
    /\ DOMAIN inserted # {}
    /\ MergeBase(parents, inserted.self.commit, inserted.tip)
          \notin {NoCommit, inserted.self.commit}

\* What C33 asks of the prefix populated from the merge base to the old root.
PrefixTakes(prefix, self) ==
    /\ prefix.err = ""
    /\ \E s \in DOMAIN prefix.node.stacks :
          \E n \in DOMAIN prefix.node.stacks[s] :
              prefix.node.stacks[s][n].commit = self.commit
    /\ Push(prefix.node, self).pushed
    /\ Push(prefix.node, self).panic = ""

\* C33: whenever insert pushes the tree down under a merge base, the prefix
\* populated from the merge base holds a node of the old root's commit and
\* takes the old tree, so the assertion on pushed does not fail and
\* from_branches does not panic, merge commits or not.
C33_PushedNeverFails ==
    /\ gpc # "panic"
    /\ PushedDown =>
          PrefixTakes(Populate(parents,
                               MergeBase(parents, inserted.self.commit, inserted.tip),
                               inserted.self.commit, inserted.index),
                      inserted.self)

\* The tree was pushed down from a root that is a merge commit, two commits
\* or more between the merge base and it.
C33_Witness ==
    /\ Built
    /\ PushedDown
    /\ Cardinality(parents[inserted.self.commit]) = 2
    /\ \E s \in DOMAIN root.stacks :
          /\ Len(root.stacks[s]) >= 3
          /\ root.stacks[s][Len(root.stacks[s])].commit = inserted.self.commit

\* The node of the prefix that takes the old tree in a push-down has no child
\* stacks, so that merge_stacks gives it the stacks of the old tree one by
\* one and hands none of them to merge_stack.
TakerIsBare(prefix, self) ==
    /\ prefix.err = ""
    /\ FindPush(prefix.node, self.commit).found
    /\ NodeAt(prefix.node, FindPush(prefix.node, self.commit).path).stacks = <<>>

\* C34: the assertion "assuming rhs is linear" does not fail.  Every run
\* merge_stack gets as its right-hand side is made of nodes without child
\* stacks, merge_stack does not panic on it, and the old tree of a push-down,
\* whose nodes have child stacks, goes to a node that has none and so is
\* never a right-hand side of merge_stack.
C34_RhsIsLinear ==
    /\ gpc # "panic"
    /\ \A call \in MergeCalls :
          /\ \A i \in DOMAIN call[2] : call[2][i].stacks = <<>>
          /\ MergeStack(call[1], call[2]).panic = ""
    /\ PushedDown =>
          TakerIsBare(Populate(parents,
                               MergeBase(parents, inserted.self.commit, inserted.tip),
                               inserted.self.commit, inserted.index),
                      inserted.self)

\* The last insert succeeded on a run that leaves a child stack of the root
\* after a shared node, in a tree that was pushed down before, the old tree
\* at the end of that child stack.
C34_Witness ==
    /\ Built
    /\ DOMAIN inserted # {}
    /\ inserted.self.commit # Head(SortedBranchIds(input, oids))
    /\ \E call \in MergeCalls :
          /\ call[1] \in Range(inserted.self.stacks)
          /\ ForkAfter(call[1], call[2], CommonPrefix(call[1], call[2]))
          /\ call[1][Len(call[1])].commit = Head(SortedBranchIds(input, oids))

\* C35: when from_branches succeeds, the root's commit is an ancestor of, or
\* equal to, every tip of the input index, and for every tip a node of the
\* tree holds the tip's commit with the tip's branches.
C35_RootBelowEveryTip ==
    Built =>
        \A t \in Oids(input) :
            /\ root.commit \in Ancestors(parents, t)
            /\ \E node \in Range(TreeNodes(root)) :
                  node.commit = t /\ node.branches = input[t]

\* A tree of three tips was built whose root is none of the tips, one of the
\* tips a merge commit.
C35_Witness ==
    /\ Built
    /\ Cardinality(Oids(input)) >= 3
    /\ root.commit \notin Oids(input)
    /\ \E t \in Oids(input) : Cardinality(parents[t]) = 2

-----------------------------------------------------------------------------
(* Properties of the configuration *)

\* The number of sources after the defaults that from_all has merged.
MergedSources ==
    CASE cfg_pc = "workdir" -> 1
      [] cfg_pc = "repo"    -> 2
      [] cfg_pc = "env"     -> 3
      [] cfg_pc = "done"    -> 5
      [] OTHER              -> 0

\* What the k-th source after the defaults holds; the global config counts as
\* holding nothing when it could not be opened.
SourceAt(k) ==
    IF SourceNames[k] = "global"
    THEN (IF sources.opened THEN sources.global ELSE DefaultConfig)
    ELSE sources[SourceNames[k]]

\* The protected branches of the defaults and of the first k sources, in order.
RECURSIVE Accumulated(_)
Accumulated(k) ==
    IF k = 0
    THEN (IF sources.opened THEN <<sources.default_branch>> ELSE <<>>)
            \o DEFAULT_PROTECTED_BRANCHES
    ELSE Accumulated(k - 1)
            \o (IF SourceAt(k).protected_branches.some
                THEN SourceAt(k).protected_branches.value ELSE <<>>)

\* The capacity the last of the first k sources to set one holds, the default
\* capacity when none of them sets one.
RECURSIVE LastCapacity(_)
LastCapacity(k) ==
    IF k = 0 THEN DEFAULT_CAPACITY
    ELSE IF SourceAt(k).capacity.some THEN SourceAt(k).capacity.value
    ELSE LastCapacity(k - 1)

\* C19: from_all merges defaults, global config, work-tree .gitconfig,
\* repository config and environment in this order: after each merge the
\* capacity is that of the last source so far that sets one, and the protected
\* branches are the lists of all sources so far, in order.
C19_MergeOrder ==
    cfg_pc \in {"global", "workdir", "repo", "env", "done"} =>
        /\ config.capacity = Some(LastCapacity(MergedSources))
        /\ config.protected_branches = Some(Accumulated(MergedSources))

\* from_all returned a configuration whose capacity comes from the work-tree
\* .gitconfig, the repository config setting none and the global config
\* another, with the lists of four sources accumulated behind the defaults.
C19_Witness ==
    /\ cfg_pc = "done"
    /\ sources.opened
    /\ sources.global.capacity.some
    /\ sources.workdir.capacity.some
    /\ sources.workdir.capacity # sources.global.capacity
    /\ ~sources.repo.capacity.some
    /\ ~sources.env_parameters.capacity.some
    /\ ~sources.env_count.capacity.some
    /\ config.capacity = sources.workdir.capacity
    /\ Len(config.protected_branches.value) >= Len(DEFAULT_PROTECTED_BRANCHES) + 4

-----------------------------------------------------------------------------
(* Properties of the apply and pop commands *)

\* The working tree was dirty when is_dirty looked at it after the stash
\* attempt: something stash save does not take, or changes it failed to save.
DirtyAfterStash ==
    /\ stash_id # "unset"
    /\ other_dirty \/ (stash_id = "none" /\ tracked_dirty)

\* Snapshot::apply was never called.
NotApplied ==
    /\ pc = "idle"
    /\ ops = <<>>
    /\ transaction = "none"
    /\ refs = refs0
    /\ head = head0
    /\ worktree = worktree0

\* C13 as stated: a tree still dirty after the stash attempt makes the command
\* exit non-zero without calling Snapshot::apply, with no ref and no HEAD
\* changed, the saved stash popped back and the snapshot file kept.
C13_DirtyAbortsStashBack ==
    (cpc = "exit" /\ DirtyAfterStash) =>
        /\ exit_code = "usage"
        /\ NotApplied
        /\ ~stashed
        /\ snapshot_file = "present"

\* C13: a tree still dirty after the stash attempt makes the command exit
\* non-zero without calling Snapshot::apply, with no ref and no HEAD changed
\* and the snapshot file kept; stash_pop is called, and the saved stash is
\* back in the working tree unless that pop failed.
C13_DirtyAborts ==
    (cpc = "exit" /\ DirtyAfterStash) =>
        /\ exit_code = "usage"
        /\ NotApplied
        /\ popped # "none"
        /\ (stash_id = "some") = (popped \in {"ok", "err"})
        /\ stashed = (popped = "err")
        /\ snapshot_file = "present"

\* The pop command saved a stash, found the tree still dirty, popped the
\* stash back and exited.
C13_Witness ==
    /\ cpc = "exit"
    /\ DirtyAfterStash
    /\ pop_flag
    /\ stash_id = "some"
    /\ popped = "ok"
    /\ tracked_dirty
    /\ exit_code = "usage"

\* C14 as stated: whenever stash save fails the restore is still attempted,
\* and a failed stash pop after a successful restore leaves the command
\* successful.
C14_StashNeverFatal ==
    cpc = "exit" =>
        /\ stash_id = "none" => pc = "done"
        /\ (result = "ok" /\ popped = "err") => exit_code = "success"

\* C14: when stash save fails and the tree is clean, the restore is attempted
\* with nothing stashed and the exit code is that of the restore alone; a
\* failed stash pop after a successful restore leaves the command successful.
C14_StashNotFatal ==
    cpc = "exit" =>
        /\ (stash_id = "none" /\ ~DirtyAfterStash) =>
              /\ pc = "done"
              /\ ~stashed
              /\ exit_code = (IF result = "ok" THEN "success" ELSE "failure")
        /\ (result = "ok" /\ popped = "err") => exit_code = "success"

\* The restore succeeded, the pop of the saved stash failed, and the command
\* exited with success.
C14_Witness ==
    /\ cpc = "exit"
    /\ stash_id = "some"
    /\ result = "ok"
    /\ Len(ops) > 0
    /\ popped = "err"
    /\ stashed
    /\ exit_code = "success"

\* C30: when the command saved a stash, it has called stash_pop for it by
\* the time it returns, on every path: the dirty-tree abort, a restore that
\* succeeded and a restore that returned an error.
C30_StashAlwaysPopped ==
    (cpc = "exit" /\ stash_id = "some") => popped # "none"

\* C32: the snapshot file changes in one way only, removed by the pop command
\* after Snapshot::apply returned Ok; the apply command, a snapshot that does
\* not load, a dirty tree and a failed restore all leave it as it was.
C32_RemovedOnlyByPopAfterOk ==
    [][snapshot_file' # snapshot_file =>
          /\ pop_flag
          /\ pc = "done"
          /\ result = "ok"
          /\ snapshot_file = "present"
          /\ snapshot_file' = "none"]_vars

\* The pop command restored a snapshot that changed a ref, removed the file
\* and exited.
C32_Witness ==
    /\ cpc = "exit"
    /\ pop_flag
    /\ result = "ok"
    /\ refs # refs0
    /\ snapshot_file = "none"

-----------------------------------------------------------------------------
(* Properties of the restore protocol *)

Returned == pc \in {"done", "captured"}

PlannedNames == {planned_changes[i].name : i \in DOMAIN planned_changes}

\* The planned change at i took effect, or a later change of the same branch
\* replaced it.
Landed(i) ==
    \/ refs[planned_changes[i].name] = planned_changes[i].new
    \/ \E j \in DOMAIN planned_changes :
          j > i /\ planned_changes[j].name = planned_changes[i].name

Failed(op) == \E i \in DOMAIN ops : ops[i].op = op /\ ~ops[i].ok

\* C1: apply is all-or-nothing: when it returns an error after a detach,
\* branch or switch step failed, every local branch ref is as it was before
\* the call; when it returns Ok, every planned change has landed.
C1_AllOrNothing ==
    /\ (result = "err" /\ (Failed("detach") \/ Failed("branch") \/ Failed("switch")))
          => refs = refs0
    /\ result = "ok" => \A i \in DOMAIN planned_changes : Landed(i)

\* C4: when apply returns Ok on a snapshot with distinct branch names, every
\* recorded branch exists and points to its recorded commit, the branches
\* that did not exist before included.
C4_OkRestoresRecorded ==
    (result = "ok" /\ DistinctNames(snapshot)) =>
        \A i \in DOMAIN snapshot :
            /\ refs[snapshot[i].name] # Zero
            /\ refs[snapshot[i].name] = snapshot[i].id

\* C4 witness: apply returned Ok after creating a branch that was absent and
\* retargeting another.
C4_Witness ==
    /\ result = "ok"
    /\ DistinctNames(snapshot)
    /\ \E i, j \in DOMAIN planned_changes :
          /\ planned_changes[i].old = Zero
          /\ planned_changes[j].old # Zero
          /\ refs[planned_changes[i].name] = planned_changes[i].new

\* The HEAD branch is in the planned change set.
HeadBranchPlanned == head0.attached /\ head0.name \in PlannedNames

\* The calls made for branch n.
OpsOf(n) == SelectSeq(ops, LAMBDA e : e.name = n)

\* The tip the last planned change of branch n records.
LastPlanned(n) ==
    LET last == CHOOSE i \in DOMAIN planned_changes :
                    /\ planned_changes[i].name = n
                    /\ \A j \in DOMAIN planned_changes :
                          planned_changes[j].name = n => j <= i
    IN planned_changes[last].new

\* C5: when the HEAD branch is in the planned change set, the calls made for
\* it are detach, branch, switch in this order (each after the one before
\* succeeded), the ref is never retargeted while HEAD is attached to it, and
\* on Ok HEAD is attached to that branch, which points at the recorded commit.
C5_HeadBranchProtocol ==
    HeadBranchPlanned =>
        LET h == head0.name
            o == OpsOf(h)
        IN /\ \A i \in DOMAIN o :
                /\ o[i].op = "detach" => (i = 1 \/ (o[i-1].op = "switch" /\ o[i-1].ok))
                /\ o[i].op = "branch" =>
                      (i > 1 /\ o[i-1].op = "detach" /\ o[i-1].ok /\ ~o[i].attached)
                /\ o[i].op = "switch" => (i > 1 /\ o[i-1].op = "branch" /\ o[i-1].ok)
           /\ result = "ok" =>
                /\ Len(o) >= 3
                /\ o[Len(o)].op = "switch"
                /\ head = Attached(h)
                /\ refs[h] = LastPlanned(h)
                /\ worktree = refs[h]

\* C5 witness: the HEAD branch was retargeted and apply returned Ok.
C5_Witness ==
    /\ HeadBranchPlanned
    /\ result = "ok"
    /\ refs[head0.name] # refs0[head0.name]
    /\ Len(planned_changes) = 2

\* C6: when the branch HEAD is attached to has no planned change, or HEAD is
\* detached, apply calls neither detach nor switch and leaves HEAD and the
\* working tree unchanged.
C6_HeadUntouched ==
    (pc # "plan" /\ ~HeadBranchPlanned) =>
        /\ \A i \in DOMAIN ops : ops[i].op = "branch"
        /\ head = head0
        /\ worktree = worktree0

\* Every record names an existing local branch already at the recorded commit.
AllRecordsMatch ==
    \A i \in DOMAIN snapshot :
        refs0[snapshot[i].name] # Zero /\ refs0[snapshot[i].name] = snapshot[i].id

\* C7 as stated: a snapshot matching the repository plans zero changes, makes
\* no detach, branch or switch call, returns Ok and leaves refs and HEAD
\* unchanged.
C7_MatchingReturnsOk ==
    (Returned /\ AllRecordsMatch) =>
        /\ planned_changes = <<>>
        /\ ops = <<>>
        /\ result = "ok"
        /\ refs = refs0
        /\ head = head0

\* C7 amended: a snapshot matching the repository plans zero changes, makes no
\* detach, branch or switch call and leaves refs, HEAD and the working tree
\* unchanged; it returns Ok unless opening the reference transaction failed.
C7_MatchingNoChange ==
    (Returned /\ AllRecordsMatch) =>
        /\ planned_changes = <<>>
        /\ ops = <<>>
        /\ refs = refs0
        /\ head = head0
        /\ worktree = worktree0
        /\ result = "err" => transaction = "none"
        /\ result = "ok" => transaction = "committed"

\* C7 witness: apply returned Ok on a two-record snapshot that matched.
C7_Witness ==
    /\ Returned
    /\ AllRecordsMatch
    /\ Len(snapshot) = 2
    /\ result = "ok"

\* The local branches the snapshot does not record, as they were before apply.
Unrecorded ==
    {b \in LocalBranches(refs0) : \A i \in DOMAIN snapshot : snapshot[i].name # b.name}

\* C8 as stated: after a successful apply the capture holds exactly the
\* (name, id) pairs of the snapshot.
C8_RoundTripIdentical ==
    (pc = "captured" /\ result = "ok") => Pairs(captured) = Pairs(snapshot)

\* C8 amended: after a successful apply of a snapshot with distinct names the
\* capture holds the pairs of the snapshot and the unchanged branches the
\* snapshot does not record, and nothing else.
C8_RoundTripRecorded ==
    (pc = "captured" /\ result = "ok" /\ DistinctNames(snapshot)) =>
        Pairs(captured) = Pairs(snapshot) \cup Unrecorded

\* C8 witness: a successful apply that changed a ref, captured in a
\* repository with a branch the snapshot does not record.
C8_Witness ==
    /\ pc = "captured"
    /\ result = "ok"
    /\ DistinctNames(snapshot)
    /\ refs # refs0
    /\ Unrecorded # {}
    /\ Len(captured) > Len(snapshot)

\* The records of the snapshot in the order p.
Permuted(snap, p) == [i \in DOMAIN snap |-> snap[p[i]]]

\* C12: whatever the order of the records, apply returns the same result and
\* leaves the same branch refs and the same HEAD.
C12_OrderIndependent ==
    Returned =>
        \A p \in Permutations_(DOMAIN snapshot) :
            ApplyOutcome(Permuted(snapshot, p), refs0, head0)
                = ApplyOutcome(snapshot, refs0, head0)

\* A branch list in ascending order of (name, id).
Sorted(seq) == \A i, j \in DOMAIN seq : i < j => BranchLess(seq[i], seq[j])

\* C20: from_repo changes no ref, HEAD or working tree and returns, sorted by
\* (name, id), one record for each local branch whose name is text; a branch
\* whose name is not text has no record and the capture does not fail.
C20_CaptureReadOnly ==
    [][(pc = "done" /\ pc' = "captured") =>
          /\ <<refs', head', worktree'>> = <<refs, head, worktree>>
          /\ Sorted(captured')
          /\ Len(captured') = Cardinality({n \in Names : refs[n] # Zero})
          /\ \A n \in Names : refs[n] # Zero =>
                \E i \in DOMAIN captured' : captured'[i] = [name |-> n, id |-> refs[n]]
          /\ \A i \in DOMAIN captured' : captured'[i].name # NonUtf8]_vars

\* A capture of two branches in a repository that also holds a branch whose
\* name is not text.
C20_Witness ==
    /\ pc = "captured"
    /\ refs[NonUtf8] # Zero
    /\ Len(captured) = 2

\* C9: the transaction is opened before the first ref or HEAD mutation, is
\* committed only after every per-branch operation succeeded, and after a
\* failed operation it is never committed but abandoned, with no partial ref
\* state left.
C9_TransactionScope ==
    /\ ops # <<>> => transaction # "none"
    /\ transaction = "committed" =>
          /\ \A i \in DOMAIN ops : ops[i].ok
          /\ \A i \in DOMAIN planned_changes : Landed(i)
    /\ (\E i \in DOMAIN ops : ~ops[i].ok) =>
          /\ transaction = "aborted"
          /\ refs = refs0

\* The record names a branch that was missing when apply was called, or one
\* that pointed at another commit than the recorded one.
Differs(record) == refs0[record.name] # record.id

\* C21: the plan holds exactly the records whose branch was missing or
\* pointed elsewhere when apply was called, in the order of the records, each
\* with the id the branch had then (the zero id for a missing branch) as old
\* id and the recorded id as new id; the plan is complete before the first
\* ref is touched and never changes afterwards.
C21_PlanIsTheDifference ==
    pc \in {"open", "loop", "branch", "switch", "commit", "done", "captured"} =>
        LET differing == SelectSeq(snapshot, Differs)
        IN /\ planned_changes =
                 [i \in DOMAIN differing |->
                     [old |-> refs0[differing[i].name], new |-> differing[i].id,
                      name |-> differing[i].name]]
           /\ pc = "open" => (refs = refs0 /\ head = head0 /\ ops = <<>>)

\* apply returned Ok on a snapshot of two records, one already matching and
\* skipped, the other naming a missing branch, planned with the zero id.
C21_Witness ==
    /\ pc = "done"
    /\ result = "ok"
    /\ Len(snapshot) = 2
    /\ Len(planned_changes) = 1
    /\ planned_changes[1].old = Zero
    /\ refs # refs0

\* The names the snapshot records.
Recorded == {snapshot[i].name : i \in DOMAIN snapshot}

\* C28: whatever apply does and however it returns, a local branch the
\* snapshot does not record is where it was when apply was called, and a
\* name it does not record that had no branch has none.
C28_UnrecordedUntouched ==
    \A n \in RefNames \ Recorded : refs[n] = refs0[n]

\* apply returned an error after it had moved a recorded branch, next to an
\* existing branch the snapshot does not record that stood at the same commit.
C28_Witness ==
    /\ pc = "done"
    /\ result = "err"
    /\ refs # refs0
    /\ \E n \in BranchNames \ Recorded, m \in Recorded :
          refs0[n] # Zero /\ refs0[n] = refs0[m] /\ refs[m] # refs0[m]

\* C29: when the reference transaction cannot be opened, apply returns the
\* error without a detach, branch or switch call: every ref, HEAD and the
\* working tree are as they were.
C29_FailedOpenTouchesNothing ==
    (pc \in {"done", "captured"} /\ result = "err" /\ transaction = "none") =>
        /\ ops = <<>>
        /\ refs = refs0
        /\ head = head0
        /\ worktree = worktree0

\* Opening the transaction failed for a plan that would have moved the
\* branch HEAD is attached to.
C29_Witness ==
    /\ pc = "done"
    /\ result = "err"
    /\ transaction = "none"
    /\ head.attached
    /\ \E i \in DOMAIN planned_changes : planned_changes[i].name = head_branch_name

\* C31: whenever apply returns, with Ok or with an error, a HEAD that was
\* attached to a branch when apply was called is attached to that branch.
C31_HeadStaysAttached ==
    (pc \in {"done", "captured"} /\ head0.attached) =>
        (head.attached /\ head.name = head0.name)

=============================================================================
